---------------------------- MODULE Spec2Model ----------------------------
(***************************************************************************)
(* A model of app.py, the RFM customer-segmentation script.  One run of    *)
(* the script is a straight line of steps over an in-memory table:         *)
(*   validate -> preprocess -> aggregate -> score -> segment -> recommend  *)
(*   -> merge -> display -> summarise -> positive -> export -> done        *)
(* with two ways out: st.stop() after a failed column check ("stopped")    *)
(* and an uncaught exception of pd.qcut ("error").                         *)
(*                                                                         *)
(* Representation.                                                         *)
(*   - A DataFrame is its set of column names and a sequence of rows, a    *)
(*     row being a record over the column names.                           *)
(*   - A raw CustomerID cell is <<>> (NaN) or <<c>>.                       *)
(*   - A raw InvoiceDate cell is the text of a timestamp, [day, tick];     *)
(*     pd.to_datetime turns it into a number of ticks, TicksPerDay ticks   *)
(*     to the day, so that Timedelta.days is a floor division.             *)
(*   - Quantity, UnitPrice and the money derived from them are integers.   *)
(***************************************************************************)
EXTENDS Integers, Sequences, FiniteSets, TLC

VARIABLES
    columns,          \* df.columns
    df,               \* df, the transaction table (rows in file order)
    pc,               \* the statement the script is at
    error_msg,        \* what st.error / the uncaught exception reports
    rfm_ref_date,     \* rfm_ref_date
    rfm,              \* rfm, the per-customer table
    shown,            \* st.dataframe(rfm.head(20))
    segment_summary,  \* segment_summary
    rfm_positive,     \* rfm_positive
    downloads         \* the two st.sidebar.download_button payloads

vars == <<columns, df, pc, error_msg, rfm_ref_date, rfm, shown,
          segment_summary, rfm_positive, downloads>>

(***************************************************************************)
(* Bounds of the model.                                                    *)
(***************************************************************************)
MaxRows == 3        \* rows of a transaction table in the general families
MaxCust == 7        \* customers of a table in the scoring families
MaxLevel == 7       \* distinct metric levels in the scoring families
MaxFreq == 2        \* invoices of a customer in the scoring families
MaxMixed == 5       \* customers whose invoice counts are taken in every order
TicksPerDay == 2    \* resolution of a timestamp within a day

(***************************************************************************)
(* Generic helpers on sequences of integers.                               *)
(***************************************************************************)
Min2(a, b) == IF a <= b THEN a ELSE b

Range(s) == {s[i] : i \in 1..Len(s)}

SetMax(S) == CHOOSE x \in S : \A y \in S : y <= x

SetMin(S) == CHOOSE x \in S : \A y \in S : x <= y

RECURSIVE SetToSortedSeq(_)
SetToSortedSeq(S) ==
    IF S = {} THEN <<>>
    ELSE LET m == SetMin(S) IN <<m>> \o SetToSortedSeq(S \ {m})

\* np.sort of a column: ascending, by insertion.
RECURSIVE InsertSorted(_, _)
InsertSorted(s, x) ==
    IF s = <<>> THEN <<x>>
    ELSE IF x < Head(s) THEN <<x>> \o s
    ELSE <<Head(s)>> \o InsertSorted(Tail(s), x)

RECURSIVE SortInts(_)
SortInts(s) ==
    IF s = <<>> THEN <<>>
    ELSE InsertSorted(SortInts(SubSeq(s, 1, Len(s) - 1)), s[Len(s)])

Col(t, c) == [i \in 1..Len(t) |-> t[i][c]]

(***************************************************************************)
(* Validation (app.py 42-46).                                              *)
(***************************************************************************)
required_cols == {"InvoiceNo", "Quantity", "UnitPrice", "InvoiceDate", "CustomerID"}

AllCols == required_cols \cup {"Country"}

\* Every required column reported, not only the missing ones.
MissingCols_All(cols) == IF required_cols \subseteq cols THEN {} ELSE required_cols

\* The check's outcome: the columns st.error names; {} when the check passes.
MissingCols(cols) == required_cols \ cols

(***************************************************************************)
(* Preprocessing (app.py 48-53).                                           *)
(***************************************************************************)
isna(cell) == cell = <<>>

\* Series.astype(int) on a float column without NaN.
astype_int(cell) == cell[1]

\* pd.to_datetime of a timestamp text.
to_datetime(text) == text.day * TicksPerDay + text.tick

dropna_CustomerID(rows) == SelectSeq(rows, LAMBDA r : ~isna(r.CustomerID))

PreprocessRow(r) ==
    [c \in (DOMAIN r) \cup {"TotalPrice"} |->
        CASE c = "CustomerID"  -> astype_int(r.CustomerID)
          [] c = "InvoiceDate" -> to_datetime(r.InvoiceDate)
          [] c = "TotalPrice"  -> r.Quantity * r.UnitPrice
          [] OTHER             -> r[c]]

PreprocessRows(rows) ==
    LET kept == dropna_CustomerID(rows)
    IN  [i \in 1..Len(kept) |-> PreprocessRow(kept[i])]

(***************************************************************************)
(* RFM calculation (app.py 55-62).                                         *)
(***************************************************************************)
NaT == -1

\* Series.max() of the InvoiceDate column; NaT on an empty column.
SeriesMax(s) == IF s = <<>> THEN NaT ELSE SetMax(Range(s))

\* Series.sum(): the cells added up in row order.
RECURSIVE SeriesSumFrom(_, _, _)
SeriesSumFrom(s, i, acc) ==
    IF i > Len(s) THEN acc ELSE SeriesSumFrom(s, i + 1, acc + s[i])

SeriesSum(s) == SeriesSumFrom(s, 1, 0)

\* Series.nunique()
nunique(s) == Cardinality(Range(s))

\* Timedelta.days: whole days, rounded down.
TimedeltaDays(delta) == delta \div TicksPerDay

\* The earliest InvoiceDate, not the latest, plus one day.
RefDate_Earliest(rows) ==
    IF rows = <<>> THEN NaT ELSE SetMin(Range(Col(rows, "InvoiceDate"))) + TicksPerDay

RefDate(rows) ==
    IF rows = <<>> THEN NaT ELSE SeriesMax(Col(rows, "InvoiceDate")) + TicksPerDay

\* The rows of one group, in their order in df.
GroupRows(rows, key) == SelectSeq(rows, LAMBDA r : r.CustomerID = key)

\* The keys without repetition, first occurrences in order.
RECURSIVE FirstOccurrences(_)
FirstOccurrences(s) ==
    IF s = <<>> THEN <<>>
    ELSE LET init == SubSeq(s, 1, Len(s) - 1)
         IN  IF s[Len(s)] \in Range(init) THEN FirstOccurrences(init)
             ELSE FirstOccurrences(init) \o <<s[Len(s)]>>

\* groupby('CustomerID', sort=False): the group keys in first-seen order.
GroupKeys_FirstSeen(rows) == FirstOccurrences(Col(rows, "CustomerID"))

\* groupby('CustomerID') sorts the group keys.
GroupKeys(rows) == SetToSortedSeq(Range(Col(rows, "CustomerID")))

RecencyOf(grp, ref) == TimedeltaDays(ref - SeriesMax(Col(grp, "InvoiceDate")))

\* 'count' in place of 'nunique': the lines, not the invoices.
FrequencyOf_Count(grp) == Len(grp)

FrequencyOf(grp) == nunique(Col(grp, "InvoiceNo"))

MonetaryOf(grp) == SeriesSum(Col(grp, "TotalPrice"))

AggRow(rows, key, ref) ==
    LET grp == GroupRows(rows, key)
    IN  [CustomerID |-> key,
         Recency    |-> RecencyOf(grp, ref),
         Frequency  |-> FrequencyOf(grp),
         Monetary   |-> MonetaryOf(grp)]

Aggregate(rows) ==
    LET keys == GroupKeys(rows)
        ref  == RefDate(rows)
    IN  [i \in 1..Len(keys) |-> AggRow(rows, keys[i], ref)]

(***************************************************************************)
(* RFM scoring (app.py 64-68): pd.qcut.                                    *)
(*                                                                         *)
(* qcut(x, 5, labels) takes the quantiles of x at np.linspace(0, 1, 6) by  *)
(* linear interpolation as bin edges, raises ValueError when two edges     *)
(* are equal, and puts v in bin #{edges < v}, the lowest value in bin 1.   *)
(* An edge is kept as <<5 * value, lift>>: five times its exact value,     *)
(* and lift = 1 when the floating-point edge lies just above that value.   *)
(* linspace's fourth quantile is 0.6000000000000001.  When the number of   *)
(* values n has 5 | n - 1, the exact index i = 3(n-1)/5 is whole and the   *)
(* computed virtual index is the next double above it, i + w * 2^-52 with  *)
(* w the largest power of two <= i.  The edge is then                      *)
(* x[i] + (x[i+1] - x[i]) * w * 2^-52 rounded to a double: above x[i] when *)
(* the gap is wide enough for the sum to round up, x[i] itself otherwise.  *)
(* The other quantiles of linspace give exact indexes for every n.         *)
(***************************************************************************)
NBins == 5

RECURSIVE FloorPow2(_)
\* the largest power of two <= a, for a >= 1
FloorPow2(a) == IF a < 2 THEN 1 ELSE 2 * FloorPow2(a \div 2)

\* Whether the double nearest lo + gap * w * 2^-52 is greater than lo
\* (w a power of two; a tie rounds to lo, whose mantissa is even).
RoundsAbove(lo, gap, w) ==
    IF gap <= 0 THEN FALSE
    ELSE IF lo = 0 THEN TRUE
    ELSE IF lo > 0 THEN 2 * w * gap > FloorPow2(lo)
    ELSE IF FloorPow2(-lo) = -lo THEN 4 * w * gap > -lo
    ELSE 2 * w * gap > FloorPow2(-lo)

\* The k-th bin edge (k in 0..NBins) of the sorted values xs.
Edge(xs, k) ==
    LET n   == Len(xs)
        num == k * (n - 1)
        idx == num \div NBins
        rem == num % NBins
        lo  == xs[idx + 1]
        hi  == xs[Min2(idx + 2, n)]
        off == k = 3 /\ n > 1 /\ rem = 0
    IN  <<NBins * lo + (hi - lo) * rem,
          IF off /\ RoundsAbove(lo, hi - lo, FloorPow2(idx)) THEN 1 ELSE 0>>

EdgeLess(a, b) == a[1] < b[1] \/ (a[1] = b[1] /\ a[2] < b[2])

\* pd.cut in place of pd.qcut: five bins of equal width.
Edges_EqualWidth(values) ==
    LET xs == SortInts(values)
    IN  [k \in 0..NBins |-> <<NBins * xs[1] + k * (xs[Len(xs)] - xs[1]), 0>>]

Edges(values) ==
    LET xs == SortInts(values) IN [k \in 0..NBins |-> Edge(xs, k)]

\* duplicates='raise'
EdgesUnique(es) == \A j, k \in DOMAIN es : j # k => es[j] # es[k]

\* The bin (1..NBins) of value v.
BinOf(es, v) ==
    LET e == <<NBins * v, 0>>
    IN  IF e = es[0] THEN 1
        ELSE Cardinality({k \in DOMAIN es : EdgeLess(es[k], e)})

QcutFails(values) == values = <<>> \/ ~EdgesUnique(Edges(values))

qcut(values, labels) ==
    LET es == Edges(values)
    IN  [i \in 1..Len(values) |-> labels[BinOf(es, values[i])]]

\* Series.rank(method='first'): ties ranked in the order they appear.
RankFirst(values) ==
    [i \in 1..Len(values) |->
        1 + Cardinality({j \in 1..Len(values) : values[j] < values[i]})
          + Cardinality({j \in 1..(i - 1) : values[j] = values[i]})]

\* The labels of F_Score and M_Score used for R_Score as well.
R_Labels_Ascending == <<1, 2, 3, 4, 5>>

R_Labels == <<5, 4, 3, 2, 1>>

F_Labels == <<1, 2, 3, 4, 5>>

M_Labels == <<1, 2, 3, 4, 5>>

R_Scores(t) == qcut(Col(t, "Recency"), R_Labels)

F_Scores(t) == qcut(RankFirst(Col(t, "Frequency")), F_Labels)

M_Scores(t) == qcut(Col(t, "Monetary"), M_Labels)

ScoringFails(t) ==
    \/ QcutFails(Col(t, "Recency"))
    \/ QcutFails(RankFirst(Col(t, "Frequency")))
    \/ QcutFails(Col(t, "Monetary"))

\* astype(str) of a score
Digit(d) == CASE d = 1 -> "1" [] d = 2 -> "2" [] d = 3 -> "3"
              [] d = 4 -> "4" [] d = 5 -> "5" [] OTHER -> "?"

RFM_ScoreOf(r, f, m) == Digit(r) \o Digit(f) \o Digit(m)

\* rfm[name] = vals
AssignColumn(t, name, vals) == [i \in 1..Len(t) |-> (name :> vals[i]) @@ t[i]]

\* app.py 65, 66, 67: one column per statement
WithR(t) == AssignColumn(t, "R_Score", R_Scores(t))

WithRF(t) == AssignColumn(WithR(t), "F_Score", F_Scores(t))

WithRFM(t) == AssignColumn(WithRF(t), "M_Score", M_Scores(t))

ScoreTable(t) ==
    LET u == WithRFM(t)
    IN  AssignColumn(u, "RFM_Score",
            [i \in 1..Len(u) |->
                RFM_ScoreOf(u[i].R_Score, u[i].F_Score, u[i].M_Score)])

(***************************************************************************)
(* Customer segmentation (app.py 70-89).                                   *)
(***************************************************************************)
\* The rules for r >= 4 and r >= 3 with f <= 2 in the other order.
segment_customer_swapped(row) ==
    LET r == row.R_Score
        f == row.F_Score
        m == row.M_Score
    IN  IF r >= 4 /\ f >= 4 /\ m >= 4 THEN "Champions"
        ELSE IF r >= 3 /\ f >= 3 /\ m >= 3 THEN "Loyal Customers"
        ELSE IF r >= 3 /\ f <= 2 THEN "Recent Customers"
        ELSE IF r >= 4 /\ f <= 2 THEN "Potential Loyalist"
        ELSE IF r <= 2 /\ f >= 4 THEN "At Risk"
        ELSE IF r <= 2 /\ f <= 2 THEN "Lost"
        ELSE "Others"

segment_customer(row) ==
    LET r == row.R_Score
        f == row.F_Score
        m == row.M_Score
    IN  IF r >= 4 /\ f >= 4 /\ m >= 4 THEN "Champions"
        ELSE IF r >= 3 /\ f >= 3 /\ m >= 3 THEN "Loyal Customers"
        ELSE IF r >= 4 /\ f <= 2 THEN "Potential Loyalist"
        ELSE IF r >= 3 /\ f <= 2 THEN "Recent Customers"
        ELSE IF r <= 2 /\ f >= 4 THEN "At Risk"
        ELSE IF r <= 2 /\ f <= 2 THEN "Lost"
        ELSE "Others"

SegmentTable(t) ==
    [i \in 1..Len(t) |-> [Segment |-> segment_customer(t[i])] @@ t[i]]

(***************************************************************************)
(* Marketing recommendations (app.py 91-100).                              *)
(***************************************************************************)
ActionMap ==
    [Champions |-> "Offer VIP loyalty reward"] @@
    ("Loyal Customers" :> "Upsell premium products") @@
    ("Potential Loyalist" :> "Send exclusive preview") @@
    ("Recent Customers" :> "Welcome email & offer") @@
    ("At Risk" :> "Send win-back campaign") @@
    [Lost |-> "Big discount or let go",
     Others |-> "General promotions"]

\* A dict without the 'Others' key.
MapAction_NoOthers(seg) ==
    IF seg \in (DOMAIN ActionMap) \ {"Others"} THEN ActionMap[seg] ELSE "NaN"

\* Series.map(dict): NaN for a value that is no key of the dict.
MapAction(seg) == IF seg \in DOMAIN ActionMap THEN ActionMap[seg] ELSE "NaN"

RecommendTable(t) ==
    [i \in 1..Len(t) |-> ("Suggested Action" :> MapAction(t[i].Segment)) @@ t[i]]

(***************************************************************************)
(* Merge of the optional Country (app.py 102-104).                         *)
(***************************************************************************)
\* df[['CustomerID', 'Country']].drop_duplicates(): first occurrences, in order.
RECURSIVE DropDuplicates(_)
DropDuplicates(s) ==
    IF s = <<>> THEN <<>>
    ELSE LET init == SubSeq(s, 1, Len(s) - 1)
             last == s[Len(s)]
         IN  IF last \in Range(init) THEN DropDuplicates(init)
             ELSE DropDuplicates(init) \o <<last>>

CountryPairs(rows) ==
    DropDuplicates([i \in 1..Len(rows) |->
        [CustomerID |-> rows[i].CustomerID, Country |-> rows[i].Country]])

\* how='left', on='CustomerID': each left row once per matching right row.
RECURSIVE MergeLeft(_, _)
MergeLeft(left, right) ==
    IF left = <<>> THEN <<>>
    ELSE LET l == Head(left)
             hits == SelectSeq(right, LAMBDA p : p.CustomerID = l.CustomerID)
         IN  [j \in 1..Len(hits) |-> [Country |-> hits[j].Country] @@ l]
             \o MergeLeft(Tail(left), right)

MergeCountry(t, rows) == MergeLeft(t, CountryPairs(rows))

(***************************************************************************)
(* Reporting (app.py 108-191).                                             *)
(***************************************************************************)
HeadRows == 20

head(t) == SubSeq(t, 1, Min2(HeadRows, Len(t)))

\* groupby("Segment") lists the segments in sorted order.
SegmentsSorted ==
    <<"At Risk", "Champions", "Lost", "Loyal Customers", "Others",
      "Potential Loyalist", "Recent Customers">>

\* One row of the summary: a mean is kept as the sum and the count.
SummaryRow(t, seg) ==
    LET grp == SelectSeq(t, LAMBDA r : r.Segment = seg)
    IN  [Segment   |-> seg,
         Recency   |-> <<SeriesSum(Col(grp, "Recency")), Len(grp)>>,
         Frequency |-> <<SeriesSum(Col(grp, "Frequency")), Len(grp)>>,
         Monetary  |-> <<SeriesSum(Col(grp, "Monetary")), Len(grp)>>,
         Count     |-> Len(grp)]

\* sort_values(by="Count", ascending=False) with the default kind="quicksort",
\* which is not stable: every order of the rows in which Count never
\* increases, the rows of equal Count in any order.
RECURSIVE SortByCount(_)
SortByCount(rows) ==
    IF rows = {} THEN {<<>>}
    ELSE LET top == SetMax({r.Count : r \in rows})
         IN  UNION {{<<r>> \o rest : rest \in SortByCount(rows \ {r})} :
                        r \in {x \in rows : x.Count = top}}

\* The tables segment_summary can be.
Summarise(t) ==
    LET present == SelectSeq(SegmentsSorted,
                             LAMBDA seg : \E i \in 1..Len(t) : t[i].Segment = seg)
    IN  SortByCount({SummaryRow(t, present[i]) : i \in 1..Len(present)})

\* The filter on the wrong side of zero's neighbour: Monetary >= 0.
PositiveRows_NonNegative(t) == SelectSeq(t, LAMBDA r : r.Monetary >= 0)

PositiveRows(t) == SelectSeq(t, LAMBDA r : r.Monetary > 0)

RfmColumns(cols) ==
    <<"CustomerID", "Recency", "Frequency", "Monetary", "R_Score", "F_Score",
      "M_Score", "RFM_Score", "Segment", "Suggested Action">>
    \o (IF "Country" \in cols THEN <<"Country">> ELSE <<>>)

\* DataFrame.to_csv(index=False): a header line, then one line per row.
to_csv(t, header) ==
    <<header>> \o [i \in 1..Len(t) |-> [j \in 1..Len(header) |-> t[i][header[j]]]]

SummaryColumns == <<"Segment", "Recency", "Frequency", "Monetary", "Count">>

(***************************************************************************)
(* The run: one action per step of the script.                             *)
(***************************************************************************)
\* app.py 42-46
Validate ==
    /\ pc = "validate"
    /\ IF MissingCols(columns) # {}
       THEN /\ error_msg' = MissingCols(columns)
            /\ pc' = "stopped"
       ELSE /\ error_msg' = error_msg
            /\ pc' = "preprocess"
    /\ UNCHANGED <<columns, df, rfm_ref_date, rfm, shown, segment_summary,
                   rfm_positive, downloads>>

\* app.py 48-53
Preprocess ==
    /\ pc = "preprocess"
    /\ df' = PreprocessRows(df)
    /\ columns' = columns \cup {"TotalPrice"}
    /\ pc' = "aggregate"
    /\ UNCHANGED <<error_msg, rfm_ref_date, rfm, shown, segment_summary,
                   rfm_positive, downloads>>

\* app.py 55-62
RfmCalculation ==
    /\ pc = "aggregate"
    /\ rfm_ref_date' = RefDate(df)
    /\ rfm' = Aggregate(df)
    /\ pc' = "score"
    /\ UNCHANGED <<columns, df, error_msg, shown, segment_summary,
                   rfm_positive, downloads>>

\* app.py 64-68
RfmScoring ==
    /\ pc = "score"
    /\ IF ScoringFails(rfm)
       THEN /\ error_msg' = {"ValueError"}
            /\ pc' = "error"
            \* the columns assigned before the statement that raises stay
            /\ rfm' = IF QcutFails(Col(rfm, "Recency")) THEN rfm
                      ELSE IF QcutFails(RankFirst(Col(rfm, "Frequency")))
                           THEN WithR(rfm)
                      ELSE WithRF(rfm)
       ELSE /\ error_msg' = error_msg
            /\ pc' = "segment"
            /\ rfm' = ScoreTable(rfm)
    /\ UNCHANGED <<columns, df, rfm_ref_date, shown, segment_summary,
                   rfm_positive, downloads>>

\* app.py 89
Segmentation ==
    /\ pc = "segment"
    /\ rfm' = SegmentTable(rfm)
    /\ pc' = "recommend"
    /\ UNCHANGED <<columns, df, error_msg, rfm_ref_date, shown, segment_summary,
                   rfm_positive, downloads>>

\* app.py 91-100
Recommend ==
    /\ pc = "recommend"
    /\ rfm' = RecommendTable(rfm)
    /\ pc' = "merge"
    /\ UNCHANGED <<columns, df, error_msg, rfm_ref_date, shown, segment_summary,
                   rfm_positive, downloads>>

\* app.py 102-104
MergeOptionalCountry ==
    /\ pc = "merge"
    /\ rfm' = IF "Country" \in columns THEN MergeCountry(rfm, df) ELSE rfm
    /\ pc' = "display"
    /\ UNCHANGED <<columns, df, error_msg, rfm_ref_date, shown, segment_summary,
                   rfm_positive, downloads>>

\* app.py 110-111
Display ==
    /\ pc = "display"
    /\ shown' = head(rfm)
    /\ pc' = "summarise"
    /\ UNCHANGED <<columns, df, error_msg, rfm_ref_date, rfm, segment_summary,
                   rfm_positive, downloads>>

\* app.py 140-147
SegmentSummary ==
    /\ pc = "summarise"
    /\ segment_summary' \in Summarise(rfm)
    /\ pc' = "positive"
    /\ UNCHANGED <<columns, df, error_msg, rfm_ref_date, rfm, shown,
                   rfm_positive, downloads>>

\* app.py 170-171
FilterPositive ==
    /\ pc = "positive"
    /\ rfm_positive' = PositiveRows(rfm)
    /\ pc' = "export"
    /\ UNCHANGED <<columns, df, error_msg, rfm_ref_date, rfm, shown,
                   segment_summary, downloads>>

\* app.py 187-193
Export ==
    /\ pc = "export"
    /\ downloads' = [rfm_segments |-> to_csv(rfm, RfmColumns(columns)),
                     rfm_summary  |-> to_csv(segment_summary, SummaryColumns)]
    /\ pc' = "done"
    /\ UNCHANGED <<columns, df, error_msg, rfm_ref_date, rfm, shown,
                   segment_summary, rfm_positive>>

Next ==
    \/ Validate
    \/ Preprocess
    \/ RfmCalculation
    \/ RfmScoring
    \/ Segmentation
    \/ Recommend
    \/ MergeOptionalCountry
    \/ Display
    \/ SegmentSummary
    \/ FilterPositive
    \/ Export

(***************************************************************************)
(* Loaded tables (app.py 35-40): the state the run starts from.            *)
(***************************************************************************)
RawRow(cust, inv, date, qty, price, country) ==
    [CustomerID |-> cust, InvoiceNo |-> inv, InvoiceDate |-> date,
     Quantity |-> qty, UnitPrice |-> price, Country |-> country]

Restrict(r, cols) == [c \in cols |-> r[c]]

TablesOver(rowset, maxlen) == UNION {[1..n -> rowset] : n \in 0..maxlen}

\* The run starts at the column check with table t, read with columns cols.
Loaded(cols, t) ==
    /\ columns = cols
    /\ df = [i \in 1..Len(t) |-> Restrict(t[i], cols)]
    /\ pc = "validate"
    /\ error_msg = {}
    /\ rfm_ref_date = NaT
    /\ rfm = <<>>
    /\ shown = <<>>
    /\ segment_summary = <<>>
    /\ rfm_positive = <<>>
    /\ downloads = <<>>

Stamp(d, t) == [day |-> d, tick |-> t]

\* Tables with an optional Country and returns: any set of columns.
MainRows ==
    {RawRow(c, 1, Stamp(d, 0), q, 3, k) :
        c \in {<<>>, <<1>>, <<2>>}, d \in {0, 1}, q \in {-2, 2}, k \in {"UK", "FR"}}

Init ==
    \E cols \in SUBSET AllCols :
        \E t \in TablesOver(MainRows, MaxRows) :
            /\ (MissingCols(cols) # {} => Len(t) <= 1)
            /\ Loaded(cols, t)

Spec == Init /\ [][Next]_vars

\* Tables of invoices: several lines to an invoice, several invoices to a
\* customer, timestamps within and across days, sales and returns.
AggRows ==
    {RawRow(c, i, s, q, 3, "UK") :
        c \in {<<1>>, <<2>>}, i \in {1, 2},
        s \in {Stamp(0, 1), Stamp(2, 0)}, q \in {-1, 2}}

\* Tables of three customers told apart by date and amount, with one or two
\* invoices each, in any order of the rows.
LeanRows ==
    {RawRow(<<c>>, i, Stamp(c, 0), c, 3, "UK") : c \in {1, 2, 3}, i \in {1, 2}}

InitAgg ==
    \/ \E t \in TablesOver(AggRows, MaxRows) : Loaded(required_cols, t)
    \/ \E t \in TablesOver(LeanRows, MaxRows + 1) : Loaded(required_cols, t)

SpecAgg == InitAgg /\ [][Next]_vars


(***************************************************************************)
(* Populations for the scoring step: customers 1..n, one line to an        *)
(* invoice.  Customer i's invoices are numbered from InvBase(i).           *)
(***************************************************************************)
\* The non-decreasing sequences of n levels lo..hi, and their reversals.
RECURSIVE NonDecreasing(_, _, _)
NonDecreasing(n, lo, hi) ==
    IF n = 0 THEN {<<>>}
    ELSE UNION {{<<v>> \o t : t \in NonDecreasing(n - 1, v, hi)} : v \in lo..hi}

Reverse(s) == [i \in 1..Len(s) |-> s[Len(s) + 1 - i]]

Monotone(n, hi) ==
    NonDecreasing(n, 1, hi) \cup {Reverse(l) : l \in NonDecreasing(n, 1, hi)}

Levels(n) == Monotone(n, MaxLevel)

\* Invoice counts per customer: every assignment for a small population,
\* the monotone ones for a larger one.
Frequencies(n) ==
    IF n <= MaxMixed THEN [1..n -> 1..MaxFreq] ELSE Monotone(n, MaxFreq)

InvBase(i) == (i - 1) * (MaxFreq + 1)

RECURSIVE Flatten(_)
Flatten(ss) == IF ss = <<>> THEN <<>> ELSE Head(ss) \o Flatten(Tail(ss))

\* Recency varies (ties included); Monetary and the row order tell customers apart.
RecencyTable(l) ==
    [i \in 1..Len(l) |-> RawRow(<<i>>, InvBase(i) + 1, Stamp(l[i], 0), i, 3, "UK")]

\* Monetary varies (ties, returns and zero included); dates are distinct.
MonetaryTable(l) ==
    [i \in 1..Len(l) |-> RawRow(<<i>>, InvBase(i) + 1, Stamp(i, 0), l[i] - 2, 3, "UK")]

\* Frequency varies in any order; dates and amounts are distinct.
FrequencyTable(f) ==
    Flatten([i \in 1..Len(f) |->
        [j \in 1..f[i] |-> RawRow(<<i>>, InvBase(i) + j, Stamp(i, 0), i, 3, "UK")]])

\* The populations, the largest first.
InitScore ==
    \E k \in 0..(MaxCust - 1) :
        LET n == MaxCust - k
        IN  \/ \E l \in Levels(n) : Loaded(required_cols, RecencyTable(l))
            \/ \E l \in Levels(n) : Loaded(required_cols, MonetaryTable(l))
            \/ \E f \in Frequencies(n) : Loaded(required_cols, FrequencyTable(f))

SpecScore == InitScore /\ [][Next]_vars

(***************************************************************************)
(* The classifier and the action lookup on their own: one scored row for   *)
(* each score triple.                                                      *)
(***************************************************************************)
Scores == 1..NBins

ScoredRow(r, f, m) ==
    [CustomerID |-> 1, Recency |-> 1, Frequency |-> 1, Monetary |-> 1,
     R_Score |-> r, F_Score |-> f, M_Score |-> m, RFM_Score |-> RFM_ScoreOf(r, f, m)]

InitSeg ==
    \E r \in Scores, f \in Scores, m \in Scores :
        /\ columns = required_cols \cup {"TotalPrice"}
        /\ df = <<>>
        /\ pc = "segment"
        /\ error_msg = {}
        /\ rfm_ref_date = NaT
        /\ rfm = <<ScoredRow(r, f, m)>>
        /\ shown = <<>>
        /\ segment_summary = <<>>
        /\ rfm_positive = <<>>
        /\ downloads = <<>>

NextSeg == Segmentation \/ Recommend

SpecSeg == InitSeg /\ [][NextSeg]_vars


(***************************************************************************)
(* Properties.                                                             *)
(***************************************************************************)
Segments ==
    {"Champions", "Loyal Customers", "Potential Loyalist", "Recent Customers",
     "At Risk", "Lost", "Others"}

Rows(t) == 1..Len(t)

\* The statements after which rfm holds the scores / the classified rows.
Scored == pc \in {"segment", "recommend", "merge", "display", "summarise",
                  "positive", "export", "done"}

Classified == pc \in {"recommend", "merge", "display", "summarise",
                      "positive", "export", "done"}

Recommended == pc \in {"merge", "display", "summarise", "positive", "export", "done"}

Merged == pc \in {"display", "summarise", "positive", "export", "done"}

\* ---- C2 ----------------------------------------------------------------
\* The rule table of the classifier, in order; the last rule always applies.
DecisionList(r, f, m) ==
    << [when |-> r >= 4 /\ f >= 4 /\ m >= 4, seg |-> "Champions"],
       [when |-> r >= 3 /\ f >= 3 /\ m >= 3, seg |-> "Loyal Customers"],
       [when |-> r >= 4 /\ f <= 2,           seg |-> "Potential Loyalist"],
       [when |-> r >= 3 /\ f <= 2,           seg |-> "Recent Customers"],
       [when |-> r <= 2 /\ f >= 4,           seg |-> "At Risk"],
       [when |-> r <= 2 /\ f <= 2,           seg |-> "Lost"],
       [when |-> TRUE,                       seg |-> "Others"] >>

FirstMatch(rules) == rules[SetMin({k \in DOMAIN rules : rules[k].when})].seg

\* C2: once the classifier has run, every row of every score triple in
\* 1..5 x 1..5 x 1..5 carries a Segment, it is one of the seven segments, and
\* it is the segment of the first rule of the ordered decision list that the
\* row's (R_Score, F_Score, M_Score) satisfies.
C2_SegmentIsFirstMatch ==
    Classified =>
        \A i \in Rows(rfm) :
            /\ "Segment" \in DOMAIN rfm[i]
            /\ rfm[i].Segment \in Segments
            /\ rfm[i].Segment =
                  FirstMatch(DecisionList(rfm[i].R_Score, rfm[i].F_Score, rfm[i].M_Score))

\* A triple that only the fourth rule claims once the third has passed on it,
\* and one that falls through to the last rule.
C2_Witness ==
    /\ Classified
    /\ \E i \in Rows(rfm) :
          \/ /\ rfm[i].R_Score = 3 /\ rfm[i].F_Score = 1
             /\ rfm[i].Segment = "Recent Customers"
          \/ /\ rfm[i].R_Score = 5 /\ rfm[i].F_Score = 3 /\ rfm[i].M_Score = 1
             /\ rfm[i].Segment = "Others"

\* ---- C6 ----------------------------------------------------------------
\* The documented lookup table of actions.
DocumentedAction(seg) ==
    CASE seg = "Champions"          -> "Offer VIP loyalty reward"
      [] seg = "Loyal Customers"    -> "Upsell premium products"
      [] seg = "Potential Loyalist" -> "Send exclusive preview"
      [] seg = "Recent Customers"   -> "Welcome email & offer"
      [] seg = "At Risk"            -> "Send win-back campaign"
      [] seg = "Lost"               -> "Big discount or let go"
      [] seg = "Others"             -> "General promotions"
      [] OTHER                      -> "undocumented"

\* C6: once the recommendations are attached, every row has a Suggested
\* Action, it is not missing (NaN), and it is the documented action of the
\* row's Segment, whichever of the seven segments the classifier returned.
C6_ActionOfEverySegment ==
    Recommended =>
        \A i \in Rows(rfm) :
            /\ "Suggested Action" \in DOMAIN rfm[i]
            /\ rfm[i]["Suggested Action"] # "NaN"
            /\ rfm[i]["Suggested Action"] = DocumentedAction(rfm[i].Segment)

C6_Witness ==
    /\ Recommended
    /\ \E i \in Rows(rfm) :
          /\ rfm[i].Segment = "Others"
          /\ rfm[i]["Suggested Action"] = "General promotions"


\* ---- C1 ----------------------------------------------------------------
CustomersOf(rows) == {rows[i].CustomerID : i \in Rows(rows)}

RowsOfCustomer(t, c) == {i \in Rows(t) : t[i].CustomerID = c}

\* C1: in the final table (the one displayed, summarised and exported) every
\* customer of the cleaned table has exactly one row, whether or not the
\* table has a Country column and however many countries a customer has.
C1_OneRowPerCustomer ==
    Merged =>
        \A c \in CustomersOf(df) : Cardinality(RowsOfCustomer(rfm, c)) = 1

\* ---- C5 ----------------------------------------------------------------
\* C5: a column check that finds required columns missing reports exactly
\* the missing ones and stops, leaving every table and output as it was, and
\* nothing runs after the stop; a check that finds them all passes the table
\* on to preprocessing as it is.
C5_MissingColumnsStop ==
    [][ /\ pc # "stopped"
        /\ (pc = "validate" /\ ~(required_cols \subseteq columns)) =>
              /\ pc' = "stopped"
              /\ error_msg' = {c \in required_cols : c \notin columns}
              /\ UNCHANGED <<columns, df, rfm_ref_date, rfm, shown,
                             segment_summary, rfm_positive, downloads>>
        /\ (pc = "validate" /\ required_cols \subseteq columns) =>
              /\ pc' = "preprocess"
              /\ UNCHANGED <<columns, df, error_msg>>
        /\ pc' = "preprocess" => pc = "validate"
      ]_vars

C5_Witness ==
    /\ pc = "stopped"
    /\ error_msg = {"InvoiceDate", "CustomerID"}
    /\ "Country" \in columns
    /\ df # <<>>

\* ---- C9 ----------------------------------------------------------------
CsvHas(csv, c, seg) ==
    \E k \in 2..Len(csv) : csv[k][1] = c /\ csv[k][9] = seg

SummaryCount(seg) ==
    {segment_summary[k].Count : k \in {j \in Rows(segment_summary) :
                                           segment_summary[j].Segment = seg}}

\* C9: after the positive-Monetary filter, a customer with Monetary <= 0 has
\* no row in rfm_positive, every row with Monetary > 0 is in it, and every
\* row of the main table, whatever its Monetary, is still there as it was
\* displayed, has one of the seven segments, is counted in the summary under
\* its segment and, once exported, is a line of the RFM CSV.
C9_PositiveFilterFrame ==
    pc \in {"export", "done"} =>
        /\ shown = head(rfm)
        /\ CustomersOf(df) = CustomersOf(rfm)
        /\ \A i \in Rows(rfm) :
              /\ rfm[i].Monetary <= 0 =>
                    RowsOfCustomer(rfm_positive, rfm[i].CustomerID) = {}
              /\ rfm[i].Monetary > 0 => rfm[i] \in Range(rfm_positive)
              /\ rfm[i].Segment \in Segments
              /\ SummaryCount(rfm[i].Segment) =
                    {Cardinality({j \in Rows(rfm) : rfm[j].Segment = rfm[i].Segment})}
              /\ pc = "done" =>
                    CsvHas(downloads.rfm_segments, rfm[i].CustomerID, rfm[i].Segment)
        /\ \A j \in Rows(rfm_positive) : rfm_positive[j] \in Range(rfm)

\* A customer whose lines are all returns, beside one with sales, exported.
C9_Witness ==
    /\ pc = "done"
    /\ \E i, j \in Rows(rfm) :
          /\ rfm[i].Monetary < 0
          /\ rfm[j].Monetary > 0
          /\ RowsOfCustomer(rfm_positive, rfm[i].CustomerID) = {}
          /\ rfm[j] \in Range(rfm_positive)


\* ---- C4 ----------------------------------------------------------------
Calculated == pc \in {"score", "error"} \/ Scored

LatestOf(c) == SetMax({df[i].InvoiceDate : i \in RowsOfCustomer(df, c)})

\* C4: once the RFM table is calculated from a non-empty cleaned table, the
\* one reference date is the latest InvoiceDate of the cleaned rows plus one
\* day, no InvoiceDate is later than it, and every customer's Recency is the
\* number of whole days from the customer's latest InvoiceDate to it, which
\* is never negative.
C4_RecencyNonNegative ==
    (Calculated /\ df # <<>>) =>
        /\ rfm_ref_date = SetMax({df[i].InvoiceDate : i \in Rows(df)}) + TicksPerDay
        /\ \A i \in Rows(df) : df[i].InvoiceDate <= rfm_ref_date
        /\ \A k \in Rows(rfm) :
              /\ rfm[k].Recency >= 0
              /\ rfm[k].Recency * TicksPerDay <= rfm_ref_date - LatestOf(rfm[k].CustomerID)
              /\ (rfm[k].Recency + 1) * TicksPerDay > rfm_ref_date - LatestOf(rfm[k].CustomerID)

\* Two customers, the earlier of whose last invoices is not a whole number
\* of days before the reference date.
C4_Witness ==
    /\ pc = "score"
    /\ \E j, k \in Rows(rfm) :
          /\ rfm[j].Recency = 1
          /\ rfm[k].Recency > 1
          /\ (rfm_ref_date - LatestOf(rfm[k].CustomerID)) % TicksPerDay # 0

\* ---- C8 ----------------------------------------------------------------
Permute(t, p) == [i \in Rows(t) |-> t[p[i]]]

RECURSIVE SumOver(_, _)
\* The sum of f over the finite set S, in no particular order.
SumOver(f, S) ==
    IF S = {} THEN 0
    ELSE LET x == CHOOSE y \in S : TRUE IN f[x] + SumOver(f, S \ {x})

\* C8: the calculated RFM table is the same for every order of the cleaned
\* rows: one row per distinct customer, with Recency the whole days from the
\* customer's latest InvoiceDate to the reference date, Frequency the number
\* of distinct InvoiceNo values and Monetary the sum of Quantity x UnitPrice
\* over all the customer's lines, returns included.
C8_AggregationOrderFree ==
    pc = "score" =>
        /\ \A p \in Permutations(Rows(df)) : Aggregate(Permute(df, p)) = rfm
        /\ CustomersOf(rfm) = CustomersOf(df)
        /\ \A k \in Rows(rfm) :
              LET mine == RowsOfCustomer(df, rfm[k].CustomerID)
              IN  /\ RowsOfCustomer(rfm, rfm[k].CustomerID) = {k}
                  /\ rfm[k].Recency = (rfm_ref_date - LatestOf(rfm[k].CustomerID)) \div TicksPerDay
                  /\ rfm[k].Frequency = Cardinality({df[i].InvoiceNo : i \in mine})
                  /\ rfm[k].Monetary =
                        SumOver([i \in Rows(df) |-> df[i].Quantity * df[i].UnitPrice], mine)

\* A customer with two lines on one invoice, a return among them, whose later
\* line comes first in the file, and a second customer in between.
C8_Witness ==
    /\ pc = "score"
    /\ Len(df) = 3
    /\ df[1].CustomerID = df[3].CustomerID
    /\ df[2].CustomerID # df[1].CustomerID
    /\ df[1].InvoiceNo = df[3].InvoiceNo
    /\ df[1].InvoiceDate > df[3].InvoiceDate
    /\ df[1].Quantity < 0
    /\ df[3].Quantity > 0

\* ---- C10 ---------------------------------------------------------------
FirstSeen(c) == SetMin(RowsOfCustomer(df, c))

\* C10 as stated: of two customers with the same Frequency, the one whose
\* first transaction row comes first in the input never gets the higher
\* F_Score (ties are ranked in first-seen row order).
C10_TiesByInputRowOrder ==
    pc = "segment" =>
        \A a, b \in Rows(rfm) :
            (/\ rfm[a].Frequency = rfm[b].Frequency
             /\ FirstSeen(rfm[a].CustomerID) < FirstSeen(rfm[b].CustomerID))
            => rfm[a].F_Score <= rfm[b].F_Score

\* C10 amended: ties in Frequency are ranked in the order of the rows of the
\* RFM table, which is ascending CustomerID whatever the order of the input
\* rows: of two customers with the same Frequency the one with the smaller
\* CustomerID never gets the higher F_Score, the F_Scores are the same for
\* every order of the input rows, and a customer with a strictly larger
\* Frequency never gets the smaller F_Score.
C10_TiesByCustomerID ==
    pc = "segment" =>
        /\ \A a, b \in Rows(rfm) :
              /\ a < b => rfm[a].CustomerID < rfm[b].CustomerID
              /\ (rfm[a].Frequency = rfm[b].Frequency /\ a < b)
                    => rfm[a].F_Score <= rfm[b].F_Score
              /\ rfm[a].Frequency < rfm[b].Frequency
                    => rfm[a].F_Score <= rfm[b].F_Score
        /\ \A p \in Permutations(Rows(df)) :
              LET t == Aggregate(Permute(df, p))
              IN  /\ Col(t, "CustomerID") = Col(rfm, "CustomerID")
                  /\ F_Scores(t) = Col(rfm, "F_Score")

\* Two customers with the same Frequency in different bins, the one with the
\* larger CustomerID first in the input and with the higher F_Score, and a
\* third customer with a larger Frequency.
C10_Witness ==
    /\ pc = "segment"
    /\ \E a, b, c \in Rows(rfm) :
          /\ rfm[a].CustomerID < rfm[b].CustomerID
          /\ rfm[a].Frequency = rfm[b].Frequency
          /\ rfm[a].F_Score < rfm[b].F_Score
          /\ FirstSeen(rfm[b].CustomerID) < FirstSeen(rfm[a].CustomerID)
          /\ rfm[c].Frequency > rfm[a].Frequency
          /\ rfm[c].F_Score > rfm[b].F_Score

\* ---- C3 ----------------------------------------------------------------
CountOf(col, v) == Cardinality({i \in Rows(rfm) : rfm[i][col] = v})

\* Each score's number of customers is within one of a fifth of the population.
WithinOne(col) ==
    \A v \in Scores :
        /\ NBins * CountOf(col, v) - Len(rfm) <= NBins
        /\ Len(rfm) - NBins * CountOf(col, v) <= NBins

PairwiseDistinct(col) ==
    \A i, j \in Rows(rfm) : i # j => rfm[i][col] # rfm[j][col]

ScoresInRange ==
    \A i \in Rows(rfm) :
        rfm[i].R_Score \in Scores /\ rfm[i].F_Score \in Scores /\ rfm[i].M_Score \in Scores

\* C3 as stated: after scoring, the three scores of every customer are in
\* 1..5 and, for each score column, each score's number of customers is
\* within one of a fifth of the population, ties in Recency or Monetary
\* included.
C3_EqualFrequencyBins ==
    Scored =>
        /\ ScoresInRange
        /\ WithinOne("R_Score")
        /\ WithinOne("F_Score")
        /\ WithinOne("M_Score")

\* C3 amended: after scoring, the three scores of every customer are in 1..5;
\* each F_Score's number of customers is within one of a fifth of the
\* population; the same holds of R_Score when no two customers share a
\* Recency and of M_Score when no two customers share a Monetary.
C3_EqualFrequencyWithoutTies ==
    Scored =>
        /\ ScoresInRange
        /\ WithinOne("F_Score")
        /\ PairwiseDistinct("Recency") => WithinOne("R_Score")
        /\ PairwiseDistinct("Monetary") => WithinOne("M_Score")

\* A population of more than five customers, all tied in Frequency, no two
\* sharing a Recency or a Monetary, with two customers on one R_Score.
C3_Witness ==
    /\ pc = "segment"
    /\ Len(rfm) > NBins
    /\ PairwiseDistinct("Recency")
    /\ PairwiseDistinct("Monetary")
    /\ \A i \in Rows(rfm) : rfm[i].Frequency = 1
    /\ \E v \in Scores : CountOf("R_Score", v) = 2
    /\ \E v \in Scores : CountOf("F_Score", v) = 2

\* ---- C7 ----------------------------------------------------------------
\* C7: after scoring, of any two customers the one with the smaller or equal
\* Recency has the greater or equal R_Score; customers with the same Recency
\* have the same R_Score.
C7_RScoreMonotone ==
    Scored =>
        \A a, b \in Rows(rfm) :
            rfm[a].Recency <= rfm[b].Recency => rfm[a].R_Score >= rfm[b].R_Score

\* Two customers tied in Recency and a third, less recent, with a lower R_Score.
C7_Witness ==
    /\ pc = "segment"
    /\ \E a, b, c \in Rows(rfm) :
          /\ a # b
          /\ rfm[a].Recency = rfm[b].Recency
          /\ rfm[a].R_Score = rfm[b].R_Score
          /\ rfm[a].Recency < rfm[c].Recency
          /\ rfm[a].R_Score > rfm[c].R_Score

=============================================================================
